---- MODULE Spec2Model ----
(***************************************************************************)
(* The read-only FUSE adapter of clip (pkg/clipfs/fsnode.go): one FSNode   *)
(* per ClipNode of a mounted archive, the shared lookup cache guarded by   *)
(* cacheMutex, the optional content cache and the storage backend.         *)
(* Requests are served by concurrent handler threads; a handler that       *)
(* finishes publishes its reply in `out`, which lasts for one step.        *)
(***************************************************************************)
EXTENDS Integers, Sequences, FiniteSets, TLC

\* ---------------------------------------------------------------- bounds

\* Largest read/mmap offset and largest destination length a request carries.
MaxOff == 2
MaxLen == 2
\* Cap on the cache-population goroutines pending at one time.
MaxTasks == 1
\* Largest open-flags word a request carries.
MaxFlags == 4

\* The kernel worker threads that deliver requests.
Threads == {"t1", "t2"}

\* ------------------------------------------------------------ the archive

\* Paths are sequences of components: "/" is <<>>, "/f" is <<"f">>.
Root == <<>>

\* What a destination buffer holds before a handler writes it.
Garbage == 7

\* Attributes of a node: inode number, size, file type of the mode bits.
Attr(ino, size, mode) == [ino |-> ino, size |-> size, mode |-> mode]

NoAttr == Attr(0, 0, "none")

ClipNode(p, ty, attr, dOff, dLen, tgt, h) ==
    [path |-> p, nodeType |-> ty, attr |-> attr, dataOffset |-> dOff,
     dataLen |-> dLen, target |-> tgt, contentHash |-> h]

\* Get's answer for an absent path (a nil *ClipNode).
NilNode == ClipNode(<<"">>, "nil", NoAttr, 0, 0, "", "")

\* The node index of the mounted archive, sorted by path.  /e is an empty
\* file, /f a hashed file, /g a file stored without a content hash, /l a
\* symlink whose target is absolute and dangling.
Index ==
    << ClipNode(Root, "dir", Attr(1, 0, "dir"), 0, 0, "", ""),
       ClipNode(<<"e">>, "file", Attr(2, 0, "file"), 3, 0, "", ""),
       ClipNode(<<"f">>, "file", Attr(3, 2, "file"), 0, 2, "", "h1"),
       ClipNode(<<"g">>, "file", Attr(4, 1, "file"), 2, 1, "", ""),
       ClipNode(<<"l">>, "symlink", Attr(5, 8, "symlink"), 0, 0, "/nowhere", "") >>

\* The content region: every file's bytes, concatenated.
Content == <<11, 12, 13>>

Nodes == {Index[i] : i \in DOMAIN Index}

Paths == {n.path : n \in Nodes}

Hashes == {n.contentHash : n \in Nodes} \ {""}

\* Names the kernel passes: the entries, an absent one, and dot-dot.
Names == {"e", "f", "g", "l", "x", ".."}

\* The names of the requests that run while another is in flight.
FewNames == {"f", "l"}

Min(a, b) == IF a < b THEN a ELSE b

\* MetadataIndex.Get: the node at exactly this path, or nil.
Get(p) ==
    IF p \in Paths THEN CHOOSE n \in Nodes : n.path = p ELSE NilNode

Parent(p) == SubSeq(p, 1, Len(p) - 1)

\* MetadataIndex.ListDirectory: the names of the direct children, in stored
\* order; empty for a path that is no directory.
ListDirectory(p) ==
    LET kids == SelectSeq(Index, LAMBDA n :
                    /\ n.path # Root
                    /\ Parent(n.path) = p
                    /\ Get(p).nodeType = "dir")
    IN  [i \in DOMAIN kids |-> kids[i].path[Len(kids[i].path)]]

\* The bytes of a file node.
FileBytes(n) == SubSeq(Content, n.dataOffset + 1, n.dataOffset + n.dataLen)

\* path.Join(parent, name): joins, then cleans; "." and "" add nothing and
\* ".." drops the last component (at the root it drops nothing).
Join(p, name) ==
    IF name \in {"", "."} THEN p
    ELSE IF name = ".." THEN (IF p = Root THEN Root ELSE Parent(p))
    ELSE Append(p, name)

\* ------------------------------------------------------------------ state

VARIABLES
    lookupCache,            \* ClipFileSystem.lookupCache: path -> (inode, attr)
    cacheMutex,             \* ClipFileSystem.cacheMutex: readers and writer
    inodes,                 \* paths whose FSNode the kernel can address
    contentCache,           \* hashes whose whole content the cache holds
    tasks,                  \* pending CacheFile goroutines, per path
    contentCacheAvailable,  \* ClipFileSystem.contentCacheAvailable
    cachedLocally,          \* what the backend's CachedLocally() answers
    pc,                     \* where each thread's handler stands
    req,                    \* the request each thread is serving
    out,                    \* the reply published by the last step
    mnt                     \* MountClipArchive, its server and its channel

vars == <<lookupCache, cacheMutex, inodes, contentCache, tasks,
          contentCacheAvailable, cachedLocally, pc, req, out, mnt>>

\* What no handler but Lookup and Read may touch.
shared == <<lookupCache, cacheMutex, inodes, contentCache, tasks>>

config == <<contentCacheAvailable, cachedLocally>>

Req(op, n, name, off, len) ==
    [op |-> op, node |-> n, name |-> name, off |-> off, len |-> len]

NoReq == Req("none", Root, "", 0, 0)

\* A reply: the request it answers, the errno, whatever the handler hands
\* back, and the calls the handler made: how many to the backend's
\* ReadFile, to the content cache's GetContent and to go CacheFile, and the
\* file offset it passed on (-1 when it made no such call).
NoOut ==
    [op |-> "none", node |-> Root, name |-> "", off |-> 0, len |-> 0,
     errno |-> "OK", data |-> <<>>, target |-> "", attr |-> NoAttr,
     ino |-> 0, entries |-> <<>>, mapped |-> FALSE,
     readFile |-> 0, getContent |-> 0, cacheFile |-> 0, callOff |-> -1,
     flags |-> 0, fuseFlags |-> 0]

ReplyTo(r, errno) ==
    [NoOut EXCEPT !.op = r.op, !.node = r.node, !.name = r.name,
                  !.off = r.off, !.len = r.len, !.errno = errno]

Zeros(k) == [i \in 1..k |-> 0]

\* A destination buffer as the kernel hands it in.
Dest(k) == [i \in 1..k |-> Garbage]

\* copy(dest, src) followed by dest[:k].
CopyPrefix(dest, src, k) ==
    [i \in 1..k |-> IF i <= Len(src) THEN src[i] ELSE dest[i]]

\* NewFileSystem: an empty lookup cache, the root node, no goroutine.  The
\* content cache is optional and outlives mounts, so it may start warm.
\* The stages of MountClipArchive, in the order of its text.
Stages == <<"mountpoint", "metadata", "storage", "filesystem", "server">>

\* make(chan error, 1).
ChanCap == 1

\* Before MountClipArchive is called.
NotMounted ==
    [stage |-> "mountpoint", ran |-> << >>, ret |-> "none",
     storage |-> "none", server |-> "none", started |-> FALSE,
     go |-> "none", buf |-> << >>, sent |-> 0, closes |-> 0]

\* The archive is mounted and its server serves: every stage succeeded,
\* the start function was called and its goroutine is in server.Wait().
Mounted ==
    [stage |-> "returned",
     ran |-> [i \in DOMAIN Stages |-> [stage |-> Stages[i], ok |-> TRUE]],
     ret |-> "ok", storage |-> "open", server |-> "serving",
     started |-> TRUE, go |-> "wait", buf |-> << >>, sent |-> 0,
     closes |-> 0]

\* The server hands requests to the handlers.
Serving == mnt.server = "serving"

\* The filesystem as clipfs.NewFileSystem leaves it.
FileSystemInit ==
    /\ lookupCache = << >>
    /\ cacheMutex = [readers |-> {}, writer |-> "none"]
    /\ inodes = {Root}
    /\ contentCacheAvailable \in BOOLEAN
    /\ cachedLocally \in BOOLEAN
    /\ contentCache \in (IF contentCacheAvailable THEN SUBSET Hashes ELSE {{}})
    /\ tasks = [p \in Paths |-> 0]
    /\ pc = [t \in Threads |-> "idle"]
    /\ req = [t \in Threads |-> NoReq]
    /\ out = NoOut

\* A mounted archive.
Init == FileSystemInit /\ mnt = Mounted

\* An archive about to be mounted.
InitMount == FileSystemInit /\ mnt = NotMounted

\* A handler that runs in one step on thread t and publishes reply r.
Answer(t, r) ==
    /\ Serving
    /\ pc[t] = "idle"
    /\ out' = r
    /\ UNCHANGED <<shared, config, mnt, pc, req>>

\* ------------------------------------------------------- write-like ops

\* Fault variant of Create: lets the creation through.
CreateAllowed(t, n, name) ==
    /\ n \in inodes
    /\ pc[t] = "idle"
    /\ inodes' = inodes \cup {Join(n, name)}
    /\ out' = ReplyTo(Req("Create", n, "", 0, 0), "OK")
    /\ UNCHANGED <<lookupCache, cacheMutex, contentCache, tasks, config, mnt, pc, req>>

Create(t, n, name) ==
    /\ n \in inodes
    /\ Answer(t, ReplyTo(Req("Create", n, "", 0, 0), "EROFS"))

Mkdir(t, n, name) ==
    /\ n \in inodes
    /\ Answer(t, ReplyTo(Req("Mkdir", n, "", 0, 0), "EROFS"))

Rmdir(t, n, name) ==
    /\ n \in inodes
    /\ Answer(t, ReplyTo(Req("Rmdir", n, "", 0, 0), "EROFS"))

Unlink(t, n, name) ==
    /\ n \in inodes
    /\ Answer(t, ReplyTo(Req("Unlink", n, "", 0, 0), "EROFS"))

Rename(t, n, oldName, newParent, newName) ==
    /\ n \in inodes
    /\ newParent \in inodes
    /\ Answer(t, ReplyTo(Req("Rename", n, "", 0, 0), "EROFS"))

\* ---------------------------------------------------------------- Lookup

ChildPath(r) == Join(r.node, r.name)

\* Lines 82-88: the request arrives and takes the read lock.
Lookup(t, n, name) ==
    /\ Serving
    /\ pc[t] = "idle"
    /\ n \in inodes
    /\ cacheMutex.writer = "none"
    /\ cacheMutex' = [cacheMutex EXCEPT !.readers = @ \cup {t}]
    /\ pc' = [pc EXCEPT ![t] = "lookupRead"]
    /\ req' = [req EXCEPT ![t] = Req("Lookup", n, name, 0, 0)]
    /\ out' = NoOut
    /\ UNCHANGED <<lookupCache, inodes, contentCache, tasks, config, mnt>>

\* The reply of a cache hit: the cached inode and attributes.
LookupHitReply(r) ==
    [ReplyTo(r, "OK") EXCEPT !.attr = lookupCache[ChildPath(r)].attr,
                             !.ino = lookupCache[ChildPath(r)].inode]

\* Fault variant of LookupCacheRead: releases the read lock on a hit only.
LookupCacheReadKeepsLock(t) ==
    /\ pc[t] = "lookupRead"
    /\ IF ChildPath(req[t]) \in DOMAIN lookupCache
       THEN /\ cacheMutex' = [cacheMutex EXCEPT !.readers = @ \ {t}]
            /\ out' = LookupHitReply(req[t])
            /\ pc' = [pc EXCEPT ![t] = "idle"]
            /\ req' = [req EXCEPT ![t] = NoReq]
       ELSE /\ cacheMutex' = cacheMutex
            /\ out' = NoOut
            /\ pc' = [pc EXCEPT ![t] = "lookupGet"]
            /\ req' = req
    /\ UNCHANGED <<lookupCache, inodes, contentCache, tasks, config, mnt>>

\* Lines 89-95: reads the map, releases the read lock, returns on a hit.
LookupCacheRead(t) ==
    /\ pc[t] = "lookupRead"
    /\ cacheMutex' = [cacheMutex EXCEPT !.readers = @ \ {t}]
    /\ IF ChildPath(req[t]) \in DOMAIN lookupCache
       THEN /\ out' = LookupHitReply(req[t])
            /\ pc' = [pc EXCEPT ![t] = "idle"]
            /\ req' = [req EXCEPT ![t] = NoReq]
       ELSE /\ out' = NoOut
            /\ pc' = [pc EXCEPT ![t] = "lookupGet"]
            /\ req' = req
    /\ UNCHANGED <<lookupCache, inodes, contentCache, tasks, config, mnt>>

\* Lines 98-108: asks the metadata index; ENOENT for an absent path,
\* else fills the attributes and creates the child's inode.
LookupMetadataGet(t) ==
    /\ pc[t] = "lookupGet"
    /\ IF Get(ChildPath(req[t])) = NilNode
       THEN /\ out' = ReplyTo(req[t], "ENOENT")
            /\ pc' = [pc EXCEPT ![t] = "idle"]
            /\ req' = [req EXCEPT ![t] = NoReq]
       ELSE /\ out' = NoOut
            /\ pc' = [pc EXCEPT ![t] = "lookupLock"]
            /\ req' = req
    /\ UNCHANGED <<shared, config, mnt>>

\* Fault variant of LookupLock: does not wait for the readers to leave.
LookupLockIgnoresReaders(t) ==
    /\ pc[t] = "lookupLock"
    /\ cacheMutex.writer = "none"
    /\ cacheMutex' = [cacheMutex EXCEPT !.writer = t]
    /\ pc' = [pc EXCEPT ![t] = "lookupInsert"]
    /\ out' = NoOut
    /\ UNCHANGED <<lookupCache, inodes, contentCache, tasks, config, mnt, req>>

\* Line 111: takes the write lock.
LookupLock(t) ==
    /\ pc[t] = "lookupLock"
    /\ cacheMutex.writer = "none"
    /\ cacheMutex.readers = {}
    /\ cacheMutex' = [cacheMutex EXCEPT !.writer = t]
    /\ pc' = [pc EXCEPT ![t] = "lookupInsert"]
    /\ out' = NoOut
    /\ UNCHANGED <<lookupCache, inodes, contentCache, tasks, config, mnt, req>>

\* Fault variant of CacheEntry: caches the inode without its attributes.
CacheEntryNoAttr(c) == [inode |-> c.attr.ino, attr |-> NoAttr]

\* The entry line 112 stores for child node c.
CacheEntry(c) == [inode |-> c.attr.ino, attr |-> c.attr]

\* The reply of a lookup answered from the metadata index.
LookupMissReply(r, c) ==
    [ReplyTo(r, "OK") EXCEPT !.attr = c.attr, !.ino = c.attr.ino]

\* Fault variant of LookupInsert: stores the entry under the parent's path.
LookupInsertParentKey(t) ==
    LET c == Get(ChildPath(req[t]))
    IN  /\ pc[t] = "lookupInsert"
        /\ lookupCache' = (req[t].node :> CacheEntry(c)) @@ lookupCache
        /\ cacheMutex' = [cacheMutex EXCEPT !.writer = "none"]
        /\ inodes' = inodes \cup {c.path}
        /\ out' = LookupMissReply(req[t], c)
        /\ pc' = [pc EXCEPT ![t] = "idle"]
        /\ req' = [req EXCEPT ![t] = NoReq]
        /\ UNCHANGED <<contentCache, tasks, config, mnt>>

\* Lines 112-115: stores the entry, unlocks, returns the new inode, which
\* the kernel can address from then on.
LookupInsert(t) ==
    LET c == Get(ChildPath(req[t]))
    IN  /\ pc[t] = "lookupInsert"
        /\ lookupCache' = (c.path :> CacheEntry(c)) @@ lookupCache
        /\ cacheMutex' = [cacheMutex EXCEPT !.writer = "none"]
        /\ inodes' = inodes \cup {c.path}
        /\ out' = LookupMissReply(req[t], c)
        /\ pc' = [pc EXCEPT ![t] = "idle"]
        /\ req' = [req EXCEPT ![t] = NoReq]
        /\ UNCHANGED <<contentCache, tasks, config, mnt>>

\* ----------------------------------------------------- backend and cache

\* Storage.ReadFile(node, dest, off) when it succeeds: copies the file's
\* bytes from off into dest, at most len(dest) and at most to the file's
\* end, and reports how many.  It reads nothing at or past the end.
ReadFileCount(n, len, off) ==
    IF off >= n.dataLen THEN 0 ELSE Min(len, n.dataLen - off)

ReadFileBytes(n, len, off) ==
    SubSeq(FileBytes(n), off + 1, off + ReadFileCount(n, len, off))

\* ContentCache.GetContent(hash, off, length) on a hit: that slice of the
\* content stored under the hash, cut at the content's end.
GetContent(n, off, length) ==
    SubSeq(FileBytes(n), off + 1, Min(off + length, n.dataLen))

\* The go func of Read runs: ClipFileSystem.CacheFile reads the whole file
\* from the backend and stores it under the content hash; a failed read
\* stores nothing.
CacheFile(p) ==
    /\ tasks[p] > 0
    /\ tasks' = [tasks EXCEPT ![p] = @ - 1]
    /\ \E ok \in BOOLEAN :
          contentCache' = IF ok THEN contentCache \cup {Get(p).contentHash}
                          ELSE contentCache
    /\ out' = NoOut
    /\ UNCHANGED <<lookupCache, cacheMutex, inodes, config, mnt, pc, req>>

\* ------------------------------------------------------------------ Read

\* Fault variant of UsesContentCache: does not ask CachedLocally.
UsesContentCacheAlways(n) ==
    /\ contentCacheAvailable
    /\ n.contentHash # ""

\* Line 155: whether Read goes to the content cache.
UsesContentCache(n) ==
    /\ contentCacheAvailable
    /\ n.contentHash # ""
    /\ ~cachedLocally

\* Fault variant of ReadPastEnd: returns dest without clearing it.
ReadPastEndUnfilled(r) ==
    [ReplyTo(r, "OK") EXCEPT !.data = Dest(r.len)]

\* Lines 136-142: a read at or past dataLen zero-fills dest and returns it.
ReadPastEnd(r) ==
    [ReplyTo(r, "OK") EXCEPT !.data = Zeros(r.len)]

\* Lines 148-151: a file without data returns dest[:0].
ReadEmpty(r) ==
    [ReplyTo(r, "OK") EXCEPT !.data = SubSeq(Dest(r.len), 1, 0)]

\* Fault variant of ReadCacheHit: asks the cache for the content's start.
ReadCacheHitFromStart(r, n) ==
    LET content == GetContent(n, 0, r.len)
    IN  [ReplyTo(r, "OK") EXCEPT
            !.data = CopyPrefix(Dest(r.len), content, Len(content)),
            !.getContent = 1, !.callOff = 0]

\* Lines 156-161: the content cache has it; copy(dest, content) and
\* dest[:len(content)].
ReadCacheHit(r, n) ==
    LET content == GetContent(n, r.off, r.len)
    IN  [ReplyTo(r, "OK") EXCEPT
            !.data = CopyPrefix(Dest(r.len), content, Len(content)),
            !.getContent = 1, !.callOff = r.off]

\* Fault variant of ReadBackend: a failed ReadFile is tried once more.
ReadBackendRetries(r, n, ok, g, c) ==
    IF ok
    THEN [ReplyTo(r, "OK") EXCEPT
            !.data = CopyPrefix(Dest(r.len), ReadFileBytes(n, r.len, r.off),
                                ReadFileCount(n, r.len, r.off)),
            !.readFile = 1, !.getContent = g, !.cacheFile = c,
            !.callOff = r.off]
    ELSE [ReplyTo(r, "EIO") EXCEPT !.readFile = 2, !.getContent = g,
                                   !.callOff = r.off]

\* Lines 163-173 and 177-182: the backend's ReadFile; EIO and no data when
\* it fails, dest[:nRead] when it succeeds.  g counts the GetContent calls
\* and c the goroutines started on the way.
ReadBackend(r, n, ok, g, c) ==
    IF ok
    THEN [ReplyTo(r, "OK") EXCEPT
            !.data = CopyPrefix(Dest(r.len), ReadFileBytes(n, r.len, r.off),
                                ReadFileCount(n, r.len, r.off)),
            !.readFile = 1, !.getContent = g, !.cacheFile = c,
            !.callOff = r.off]
    ELSE [ReplyTo(r, "EIO") EXCEPT !.readFile = 1, !.getContent = g,
                                   !.callOff = r.off]

\* Lines 134-161 and 177-182: everything but the path after a cache miss.
Read(t, p, off, len) ==
    LET n == Get(p)
        r == Req("Read", p, "", off, len)
    IN  /\ Serving
        /\ pc[t] = "idle"
        /\ p \in inodes
        /\ IF off >= n.dataLen
           THEN /\ out' = ReadPastEnd(r)
                /\ UNCHANGED <<pc, req>>
           ELSE IF n.dataLen = 0
           THEN /\ out' = ReadEmpty(r)
                /\ UNCHANGED <<pc, req>>
           ELSE IF UsesContentCache(n)
           THEN IF n.contentHash \in contentCache
                THEN /\ out' = ReadCacheHit(r, n)
                     /\ UNCHANGED <<pc, req>>
                ELSE /\ out' = NoOut
                     /\ pc' = [pc EXCEPT ![t] = "readMiss"]
                     /\ req' = [req EXCEPT ![t] = r]
           ELSE /\ \E ok \in BOOLEAN : out' = ReadBackend(r, n, ok, 0, 0)
                /\ UNCHANGED <<pc, req>>
        /\ UNCHANGED <<shared, config, mnt>>

\* Fault variant of ReadMiss: starts the goroutine before looking at the
\* backend's error.
ReadMissAlwaysCaches(t) ==
    LET r == req[t]
        n == Get(r.node)
    IN  /\ pc[t] = "readMiss"
        /\ tasks[r.node] < MaxTasks
        /\ \E ok \in BOOLEAN : out' = ReadBackend(r, n, ok, 1, 1)
        /\ tasks' = [tasks EXCEPT ![r.node] = @ + 1]
        /\ pc' = [pc EXCEPT ![t] = "idle"]
        /\ req' = [req EXCEPT ![t] = NoReq]
        /\ UNCHANGED <<lookupCache, cacheMutex, inodes, contentCache, config, mnt>>

\* Lines 163-173: after a cache miss, reads from the backend and, when that
\* succeeds, starts the goroutine that stores the whole file.
ReadMiss(t) ==
    LET r == req[t]
        n == Get(r.node)
    IN  /\ pc[t] = "readMiss"
        /\ \E ok \in BOOLEAN :
              /\ ok => tasks[r.node] < MaxTasks
              /\ out' = ReadBackend(r, n, ok, 1, 1)
              /\ tasks' = IF ok THEN [tasks EXCEPT ![r.node] = @ + 1]
                          ELSE tasks
        /\ pc' = [pc EXCEPT ![t] = "idle"]
        /\ req' = [req EXCEPT ![t] = NoReq]
        /\ UNCHANGED <<lookupCache, cacheMutex, inodes, contentCache, config, mnt>>

\* ------------------------------------------- Readlink, Getattr, Readdir

\* Fault variant of Readlink: hands back the target whatever the node type.
ReadlinkUnchecked(t, p) ==
    /\ p \in inodes
    /\ Answer(t, [ReplyTo(Req("Readlink", p, "", 0, 0), "OK")
                     EXCEPT !.target = Get(p).target])

Readlink(t, p) ==
    LET n == Get(p)
        r == Req("Readlink", p, "", 0, 0)
    IN  /\ p \in inodes
        /\ Answer(t, IF n.nodeType # "symlink"
                     THEN ReplyTo(r, "EINVAL")
                     ELSE [ReplyTo(r, "OK") EXCEPT !.target = n.target])

Getattr(t, p) ==
    /\ p \in inodes
    /\ Answer(t, [ReplyTo(Req("Getattr", p, "", 0, 0), "OK")
                     EXCEPT !.attr = Get(p).attr])

Readdir(t, p) ==
    /\ p \in inodes
    /\ Answer(t, [ReplyTo(Req("Readdir", p, "", 0, 0), "OK")
                     EXCEPT !.entries = ListDirectory(p)])

\* -------------------------------------------------------- Open, Opendir

\* syscall.MAP_SHARED, syscall.MAP_PRIVATE and fuse.FOPEN_DIRECT_IO.
MAP_SHARED == 1

MAP_PRIVATE == 2

FOPEN_DIRECT_IO == 1

\* flags & bit # 0, for a bit that is a power of two.
HasBit(flags, bit) == (flags \div bit) % 2 = 1

\* Fault variant of OpenFuseFlags: tests MAP_PRIVATE alone.
OpenFuseFlagsPrivateOnly(flags) ==
    IF HasBit(flags, MAP_PRIVATE) THEN FOPEN_DIRECT_IO ELSE 0

\* Lines 125-128: fuseFlags starts at zero and gets the direct-I/O bit
\* when either mapping bit is set in the open flags.
OpenFuseFlags(flags) ==
    IF HasBit(flags, MAP_PRIVATE) \/ HasBit(flags, MAP_SHARED)
    THEN FOPEN_DIRECT_IO
    ELSE 0

\* Lines 123-131: no file handle, the flags above, OK.
Open(t, p, flags) ==
    /\ p \in inodes
    /\ Answer(t, [ReplyTo(Req("Open", p, "", 0, 0), "OK")
                     EXCEPT !.flags = flags,
                            !.fuseFlags = OpenFuseFlags(flags)])

\* Lines 118-121.
Opendir(t, p) ==
    /\ p \in inodes
    /\ Answer(t, ReplyTo(Req("Opendir", p, "", 0, 0), "OK"))

\* ------------------------------------------------------------------ Mmap

\* Lines 43-53: the buffer Mmap builds: the file's bytes, then zeros up to
\* off + sz.
PaddedBuf(n, off, sz) ==
    [i \in 1..(off + sz) |-> IF i <= n.dataLen THEN FileBytes(n)[i] ELSE 0]

\* Lines 37-60.  The reply is the pair (bool, error) alone: paddedBuf is a
\* local that goes nowhere.  A failed read hands the backend's error back
\* as it is.
Mmap(t, p, off, sz) ==
    LET n == Get(p)
        r == Req("Mmap", p, "", off, sz)
    IN  /\ p \in inodes
        /\ IF off + sz > n.dataLen
           THEN \E ok \in BOOLEAN :
                  Answer(t, IF ok
                            THEN [ReplyTo(r, "OK") EXCEPT !.mapped = TRUE,
                                                          !.readFile = 1,
                                                          !.callOff = 0]
                            ELSE [ReplyTo(r, "IOError") EXCEPT !.readFile = 1,
                                                               !.callOff = 0])
           ELSE Answer(t, ReplyTo(r, "OK"))

\* ------------------------------------------------- operations not handled

\* The methods FSNode defines.
FSNodeMethods ==
    {"OnAdd", "Init", "Mmap", "Getattr", "Lookup", "Opendir", "Open", "Read",
     "Readlink", "Readdir", "Create", "Mkdir", "Rmdir", "Unlink", "Rename"}

\* The write-like FUSE operations.
WriteLikeOps ==
    {"Create", "Mkdir", "Rmdir", "Unlink", "Rename",
     "Setattr", "Write", "Symlink", "Link"}

\* What the FUSE library answers for an operation the node has no method
\* for: its own default, which the adapter does not choose.
LibraryDefaults == {"ENOTSUP", "EROFS"}

\* An operation FSNode has no method for never reaches the adapter.
Unhandled(t, p, op) ==
    /\ op \notin FSNodeMethods
    /\ p \in inodes
    /\ \E e \in LibraryDefaults : Answer(t, ReplyTo(Req(op, p, "", 0, 0), e))

\* ------------------------------------------ MountClipArchive (clip.go)

\* What the filesystem's handlers work on.
fsvars == <<shared, config, pc, req>>

\* Stage s of MountClipArchive has run: on success the next stage is due,
\* on failure MountClipArchive returns (nil, nil, err).
StageDone(s, ok, next) ==
    [mnt EXCEPT !.ran = Append(@, [stage |-> s, ok |-> ok]),
                !.stage = IF ok THEN next ELSE "failed",
                !.ret = IF ok THEN @ ELSE "err"]

\* Lines 138-144: creates the mount point when it is missing.
MkdirMountPoint ==
    /\ mnt.stage = "mountpoint"
    /\ \E ok \in BOOLEAN : mnt' = StageDone("mountpoint", ok, "metadata")
    /\ out' = NoOut
    /\ UNCHANGED fsvars

\* Fault variant of ExtractMetadata: goes on with an invalid archive.
ExtractMetadataUnchecked ==
    /\ mnt.stage = "metadata"
    /\ \E ok \in BOOLEAN :
          mnt' = [StageDone("metadata", ok, "storage")
                     EXCEPT !.stage = "storage", !.ret = "none"]
    /\ out' = NoOut
    /\ UNCHANGED fsvars

\* Lines 146-150: reads the archive's index; an invalid archive ends the
\* mount.
ExtractMetadata ==
    /\ mnt.stage = "metadata"
    /\ \E ok \in BOOLEAN : mnt' = StageDone("metadata", ok, "storage")
    /\ out' = NoOut
    /\ UNCHANGED fsvars

\* Lines 152-155: opens the storage backend.
NewClipStorage ==
    /\ mnt.stage = "storage"
    /\ \E ok \in BOOLEAN :
          mnt' = [StageDone("storage", ok, "filesystem")
                     EXCEPT !.storage = IF ok THEN "open" ELSE @]
    /\ out' = NoOut
    /\ UNCHANGED fsvars

\* Lines 157-160: builds the filesystem over the storage.
NewFileSystem ==
    /\ mnt.stage = "filesystem"
    /\ \E ok \in BOOLEAN : mnt' = StageDone("filesystem", ok, "server")
    /\ out' = NoOut
    /\ UNCHANGED fsvars

\* Lines 162-201: builds the server and the channel and returns
\* (startServer, serverError, nil).
NewServer ==
    /\ mnt.stage = "server"
    /\ \E ok \in BOOLEAN :
          mnt' = [StageDone("server", ok, "returned")
                     EXCEPT !.server = IF ok THEN "created" ELSE @,
                            !.ret = IF ok THEN "ok" ELSE "err"]
    /\ out' = NoOut
    /\ UNCHANGED fsvars

\* Lines 184-199: the caller calls the start function, which starts the
\* goroutine and returns nil.
StartServer ==
    /\ mnt.ret = "ok"
    /\ ~mnt.started
    /\ mnt' = [mnt EXCEPT !.started = TRUE, !.go = "serve"]
    /\ out' = NoOut
    /\ UNCHANGED fsvars

\* Line 186: go server.Serve().
GoServe ==
    /\ mnt.go = "serve"
    /\ mnt' = [mnt EXCEPT !.go = "waitMount", !.server = "starting"]
    /\ out' = NoOut
    /\ UNCHANGED fsvars

\* The server's loop comes up, or fails to.
ServerInit ==
    /\ mnt.server = "starting"
    /\ \E ok \in BOOLEAN :
          mnt' = [mnt EXCEPT !.server = IF ok THEN "serving" ELSE "failed"]
    /\ out' = NoOut
    /\ UNCHANGED fsvars

\* Line 188: server.WaitMount() returns once the loop is up or has failed.
WaitMount ==
    /\ mnt.go = "waitMount"
    /\ mnt.server \in {"serving", "failed", "stopped"}
    /\ mnt' = [mnt EXCEPT !.go = IF mnt.server = "failed" THEN "send"
                                 ELSE "wait"]
    /\ out' = NoOut
    /\ UNCHANGED fsvars

\* Fault variant of SendError: falls through to close(serverError).
SendErrorNoReturn ==
    /\ mnt.go = "send"
    /\ Len(mnt.buf) < ChanCap
    /\ mnt.closes = 0
    /\ mnt' = [mnt EXCEPT !.buf = Append(@, "err"), !.sent = @ + 1,
                          !.go = "close"]
    /\ out' = NoOut
    /\ UNCHANGED fsvars

\* Lines 189-190: serverError <- err, which waits for room in the channel,
\* then return.
SendError ==
    /\ mnt.go = "send"
    /\ Len(mnt.buf) < ChanCap
    /\ mnt.closes = 0
    /\ mnt' = [mnt EXCEPT !.buf = Append(@, "err"), !.sent = @ + 1,
                          !.go = "done"]
    /\ out' = NoOut
    /\ UNCHANGED fsvars

\* The kernel unmounts: the server's loop ends once the handlers it runs
\* have returned.  Goroutines the handlers started are not its own.
Unmount ==
    /\ mnt.server = "serving"
    /\ \A t \in Threads : pc[t] = "idle"
    /\ mnt' = [mnt EXCEPT !.server = "stopped"]
    /\ out' = NoOut
    /\ UNCHANGED fsvars

\* Line 193: server.Wait() returns when the loop has ended.
ServerWait ==
    /\ mnt.go = "wait"
    /\ mnt.server = "stopped"
    /\ mnt' = [mnt EXCEPT !.go = "close"]
    /\ out' = NoOut
    /\ UNCHANGED fsvars

\* Line 195: close(serverError); the goroutine ends.
CloseChan ==
    /\ mnt.go = "close"
    /\ mnt' = [mnt EXCEPT !.closes = @ + 1, !.go = "done"]
    /\ out' = NoOut
    /\ UNCHANGED fsvars

\* The caller takes a value from the channel, if it cares to.
Receive ==
    /\ mnt.buf # << >>
    /\ mnt' = [mnt EXCEPT !.buf = Tail(@)]
    /\ out' = NoOut
    /\ UNCHANGED fsvars

\* The goroutine of the start function.
Goroutine ==
    GoServe \/ WaitMount \/ SendError \/ ServerWait \/ CloseChan

\* ------------------------------------------------------------------ Next

\* The requests the kernel's workers T serve, with lookup names from N,
\* offsets from O, lengths from L and open flags from G, and the
\* goroutines that run beside them.  The write-like handlers only log
\* their names.
Serve(T, N, O, L, G) ==
    \/ \E t \in T, p \in inodes, name \in FewNames : Create(t, p, name)
    \/ \E t \in T, p \in inodes, name \in FewNames : Mkdir(t, p, name)
    \/ \E t \in T, p \in inodes, name \in FewNames : Rmdir(t, p, name)
    \/ \E t \in T, p \in inodes, name \in FewNames : Unlink(t, p, name)
    \/ \E t \in T, p, q \in inodes, name, newName \in FewNames :
          Rename(t, p, name, q, newName)
    \/ \E t \in T, p \in inodes, op \in WriteLikeOps : Unhandled(t, p, op)
    \/ \E t \in T, p \in inodes, name \in N : Lookup(t, p, name)
    \/ \E t \in T : LookupCacheRead(t)
    \/ \E t \in T : LookupMetadataGet(t)
    \/ \E t \in T : LookupLock(t)
    \/ \E t \in T : LookupInsert(t)
    \/ \E t \in T, p \in inodes : Getattr(t, p)
    \/ \E t \in T, p \in inodes : Readdir(t, p)
    \/ \E t \in T, p \in inodes : Readlink(t, p)
    \/ \E t \in T, p \in inodes, flags \in G : Open(t, p, flags)
    \/ \E t \in T, p \in inodes : Opendir(t, p)
    \/ \E t \in T, p \in inodes, off \in O, len \in L : Read(t, p, off, len)
    \/ \E t \in T : ReadMiss(t)
    \/ \E t \in T, p \in inodes, off \in O, sz \in L : Mmap(t, p, off, sz)
    \/ \E p \in Paths : CacheFile(p)

\* One worker, every name, offset and length.
Next == Serve({"t1"}, Names, 0..MaxOff, 1..MaxLen, 0..MaxFlags)

Spec == Init /\ [][Next]_vars

\* Concurrent workers.
NextConc == Serve(Threads, FewNames, {0, 1, MaxOff}, {MaxLen}, {0, MAP_SHARED})

SpecConc == Init /\ [][NextConc]_vars

\* The mount from the call of MountClipArchive to the end of its
\* goroutine, with one worker serving in between.
NextMount ==
    \/ MkdirMountPoint
    \/ ExtractMetadata
    \/ NewClipStorage
    \/ NewFileSystem
    \/ NewServer
    \/ StartServer
    \/ GoServe
    \/ ServerInit
    \/ WaitMount
    \/ SendError
    \/ Unmount
    \/ ServerWait
    \/ CloseChan
    \/ Receive
    \/ Serve({"t1"}, FewNames, {0, MaxOff}, {MaxLen}, {0})

SpecMount == InitMount /\ [][NextMount]_vars

\* The Go scheduler runs every goroutine that can run: the start
\* function's goroutine and the server's loop.  Nothing makes the kernel
\* unmount or the caller receive.
FairSpecMount ==
    /\ InitMount
    /\ [][NextMount]_vars
    /\ WF_vars(Goroutine)
    /\ WF_vars(ServerInit)

\* ---------------------------------------------------------------- claims

HandledWriteOps == {"Create", "Mkdir", "Rmdir", "Unlink", "Rename"}

NoCalls(o) == o.readFile = 0 /\ o.getContent = 0 /\ o.cacheFile = 0

F == <<"f">>

L == <<"l">>

\* C1: Create, Mkdir, Rmdir, Unlink and Rename answer EROFS on every node,
\* in every state, also beside requests in flight; the step changes neither
\* the lookup cache, its lock, the node tree, the content cache nor the
\* pending goroutines, and makes no backend or content-cache call.
C1_WriteOpsDenied ==
    [][out'.op \in HandledWriteOps =>
          /\ out'.errno = "EROFS"
          /\ NoCalls(out')
          /\ UNCHANGED <<shared, config>>]_vars

C1_Witness ==
    /\ out.op = "Rename"
    /\ out.errno = "EROFS"
    /\ F \in DOMAIN lookupCache
    /\ \E t \in Threads : pc[t] = "lookupInsert"

\* C2: setattr, write, symlink and link answer EROFS.
C2_UnhandledWriteOpsDenied ==
    out.op \in (WriteLikeOps \ HandledWriteOps) => out.errno = "EROFS"

\* C3: under any interleaving of lookups, a Lookup answers ENOENT exactly
\* when the joined path is absent from the metadata index, and otherwise
\* answers OK with the attributes of that path's ClipNode, from the lookup
\* cache or from the index alike; a Lookup that answers ENOENT leaves the
\* lookup cache as it was.
C3_LookupAnswer ==
    [][out'.op = "Lookup" =>
          LET cp == Join(out'.node, out'.name)
          IN  /\ (out'.errno = "ENOENT") <=> (cp \notin Paths)
              /\ cp \in Paths =>
                    /\ out'.errno = "OK"
                    /\ \E n \in Nodes : n.path = cp /\ out'.attr = n.attr
              /\ out'.errno = "ENOENT" => lookupCache' = lookupCache]_vars

C3_Witness ==
    /\ out.op = "Lookup"
    /\ out.node = Root
    /\ out.name = "f"
    /\ out.errno = "OK"
    /\ out.attr.size = 2
    /\ F \in DOMAIN lookupCache
    /\ \E t \in Threads : pc[t] = "lookupLock" /\ ChildPath(req[t]) = F

\* C4: Readlink on a symlink answers OK with exactly the stored target, on
\* any other node EINVAL; it makes no backend call and changes no state.
C4_Readlink ==
    [][out'.op = "Readlink" =>
          /\ \E n \in Nodes :
                /\ n.path = out'.node
                /\ IF n.nodeType = "symlink"
                   THEN out'.errno = "OK" /\ out'.target = n.target
                   ELSE out'.errno = "EINVAL" /\ out'.target = ""
          /\ NoCalls(out')
          /\ UNCHANGED <<shared, config>>]_vars

C4_Witness ==
    /\ out.op = "Readlink"
    /\ out.node = L
    /\ out.errno = "OK"
    /\ out.target = "/nowhere"

\* C5: a Read at an offset at or past dataLen answers OK with dest all
\* zeros and calls neither ReadFile nor the content cache nor starts a
\* goroutine; a Read below dataLen goes to ReadFile or to the content cache
\* with the request's own offset.
C5_ReadPastEndZeroFills ==
    [][out'.op = "Read" =>
          \E n \in Nodes :
             /\ n.path = out'.node
             /\ IF out'.off >= n.dataLen
                THEN /\ out'.errno = "OK"
                     /\ Len(out'.data) = out'.len
                     /\ \A i \in 1..out'.len : out'.data[i] = 0
                     /\ NoCalls(out')
                     /\ tasks' = tasks
                ELSE /\ out'.readFile + out'.getContent >= 1
                     /\ out'.callOff = out'.off]_vars

C5_Witness ==
    /\ out.op = "Read"
    /\ out.node = F
    /\ out.off = 2
    /\ out.len = MaxLen
    /\ out.data = Zeros(MaxLen)
    /\ contentCacheAvailable
    /\ ~cachedLocally

\* C6: a read of a file of size n at an offset at or past n answers OK
\* with no bytes, and a read below n that reaches past n answers exactly
\* n - offset bytes.
C6_OutOfRangeReads ==
    (out.op = "Read" /\ out.errno = "OK") =>
       \A n \in Nodes :
          (n.path = out.node /\ n.nodeType = "file") =>
             /\ out.off >= n.dataLen => out.data = <<>>
             /\ (out.off < n.dataLen /\ out.off + out.len > n.dataLen) =>
                   Len(out.data) = n.dataLen - out.off

\* C7: a Read on a symlink answers EINVAL.
C7_ReadSymlinkInvalid ==
    out.op = "Read" =>
       \A n \in Nodes :
          (n.path = out.node /\ n.nodeType = "symlink") => out.errno = "EINVAL"

\* What a request answers when it runs alone against the archive: errno,
\* bytes, attributes, link target and directory entries.
Alone(o) ==
    LET n == CHOOSE m \in Nodes : m.path = o.node
        cp == Join(o.node, o.name)
    IN  CASE o.op = "Read" ->
               <<"OK",
                 IF o.off >= n.dataLen THEN Zeros(o.len)
                 ELSE SubSeq(FileBytes(n), o.off + 1,
                             Min(o.off + o.len, n.dataLen)),
                 NoAttr, "", <<>> >>
          [] o.op = "Lookup" ->
               IF cp \in Paths
               THEN <<"OK", <<>>, (CHOOSE m \in Nodes : m.path = cp).attr,
                      "", <<>> >>
               ELSE <<"ENOENT", <<>>, NoAttr, "", <<>> >>
          [] o.op = "Getattr" -> <<"OK", <<>>, n.attr, "", <<>> >>
          [] o.op = "Readdir" -> <<"OK", <<>>, NoAttr, "", ListDirectory(o.node)>>
          [] o.op = "Readlink" ->
               IF n.nodeType = "symlink"
               THEN <<"OK", <<>>, NoAttr, n.target, <<>> >>
               ELSE <<"EINVAL", <<>>, NoAttr, "", <<>> >>

Answered(o) == <<o.errno, o.data, o.attr, o.target, o.entries>>

\* C8: with workers serving Read, Lookup, Getattr, Readdir and Readlink
\* concurrently and cache-population goroutines running beside them, every
\* request answers what it answers when run alone; the one answer that is
\* not the archive's is EIO, given when the backend's ReadFile failed for
\* that request.
C8_SameAsAlone ==
    out.op \in {"Read", "Lookup", "Getattr", "Readdir", "Readlink"} =>
       \/ Answered(out) = Alone(out)
       \/ out.errno = "EIO" /\ out.readFile = 1 /\ out.data = <<>>

C8_Witness ==
    /\ out.op = "Read"
    /\ out.node = F
    /\ out.getContent = 1
    /\ out.readFile = 0
    /\ out.data = <<11, 12>>
    /\ \E t \in Threads : pc[t] = "readMiss"

\* C9: Read asks the content cache only when a cache is configured, the
\* node has a content hash and the backend is not cached locally; when
\* these hold and the cache has the content, a Read below dataLen is
\* answered from the cache with the right bytes and ReadFile is not called.
C9_ServedFromCache ==
    [][out'.op = "Read" =>
          \E n \in Nodes :
             /\ n.path = out'.node
             /\ out'.getContent = 1 =>
                   /\ contentCacheAvailable
                   /\ n.contentHash # ""
                   /\ ~cachedLocally
             /\ ( /\ contentCacheAvailable
                  /\ n.contentHash # ""
                  /\ ~cachedLocally
                  /\ out'.off < n.dataLen
                  /\ pc' = pc
                  /\ n.contentHash \in contentCache ) =>
                   /\ out'.errno = "OK"
                   /\ out'.getContent = 1
                   /\ out'.readFile = 0
                   /\ out'.data = SubSeq(FileBytes(n), out'.off + 1,
                                         Min(out'.off + out'.len, n.dataLen))]_vars

C9_Witness ==
    /\ out.op = "Read"
    /\ out.node = F
    /\ out.off = 1
    /\ out.getContent = 1
    /\ out.readFile = 0
    /\ out.errno = "OK"
    /\ out.data = <<12>>

\* C10: an Mmap whose range reaches past dataLen hands the kernel the
\* file's bytes followed by zeros up to off + sz when the backend read
\* succeeds, and never EIO then; an Mmap within dataLen reads nothing.
C10_MmapPadded ==
    out.op = "Mmap" =>
       \A n \in Nodes :
          (n.path = out.node /\ n.nodeType = "file") =>
             /\ (out.off + out.len > n.dataLen /\ out.errno = "OK") =>
                   out.data = PaddedBuf(n, out.off, out.len)
             /\ out.off + out.len <= n.dataLen => out.readFile = 0
             /\ out.errno # "EIO"

\* C11: Open answers OK on every node for every flags word, with the
\* direct-I/O bit set exactly when MAP_PRIVATE or MAP_SHARED is set in the
\* flags and no other bit; Opendir answers OK; neither calls the backend or
\* the content cache nor changes any state.
C11_OpenDirectIO ==
    [][out'.op \in {"Open", "Opendir"} =>
          /\ out'.errno = "OK"
          /\ out'.fuseFlags =
                (IF (out'.flags % 2 = 1) \/ ((out'.flags \div 2) % 2 = 1)
                 THEN 1 ELSE 0)
          /\ out'.op = "Opendir" => out'.fuseFlags = 0
          /\ NoCalls(out')
          /\ UNCHANGED <<shared, config>>]_vars

C11_Witness ==
    /\ out.op = "Open"
    /\ out.node = F
    /\ out.flags = 1
    /\ out.fuseFlags = 1
    /\ out.errno = "OK"

\* The errnos the adapter is said to answer with, and success.
PosixReplies == {"OK", "EIO", "EROFS", "ENOENT", "EINVAL"}

\* C12: every operation of the adapter completes with success or one of
\* EIO, EROFS, ENOENT, EINVAL: a backend error is turned into an errno and
\* never handed back as it is.
C12_ErrnoOnly ==
    out.op \in FSNodeMethods => out.errno \in PosixReplies

\* Thread t holds cacheMutex, shared or exclusive.
HoldsLock(t) == t \in cacheMutex.readers \/ cacheMutex.writer = t

\* C15: no handler holds cacheMutex while it calls the backend, the
\* metadata index, the content cache or creates an inode: the lock is held
\* at the map read and at the map insertion only, the write lock is dropped
\* by the very step that inserts one entry, and a step that calls out, Read
\* and Mmap among them, neither holds nor touches the lock.
C15_NoLockAcrossCalls ==
    [][/\ \A t \in Threads :
             /\ t \in cacheMutex.readers => pc[t] = "lookupRead"
             /\ cacheMutex.writer = t => pc[t] = "lookupInsert"
             /\ pc[t] \in {"lookupGet", "readMiss"} => ~HoldsLock(t)
             /\ (HoldsLock(t) /\ pc'[t] # pc[t]) => ~HoldsLock(t)'
       /\ cacheMutex.writer # "none" /\ cacheMutex'.writer = "none" =>
             Cardinality(DOMAIN lookupCache') <=
                Cardinality(DOMAIN lookupCache) + 1
       /\ (~NoCalls(out') \/ out'.op \in {"Read", "Mmap"}) =>
             cacheMutex' = cacheMutex]_vars

\* One worker is inside the insertion while the other asks the metadata
\* index without the lock.
C15_Witness ==
    /\ cacheMutex.writer = "t1"
    /\ pc["t1"] = "lookupInsert"
    /\ pc["t2"] = "lookupGet"

\* C16: every access to the lookup cache is made under cacheMutex, reads
\* shared and insertions exclusive: no insertion runs beside another
\* insertion or a read, the map changes only under the write lock, and a
\* worker that has returned from Lookup holds no lock.
C16_CacheUnderMutex ==
    [][/\ cacheMutex.writer # "none" => cacheMutex.readers = {}
       /\ \A t \in Threads :
             /\ pc[t] = "lookupRead" => t \in cacheMutex.readers
             /\ pc[t] = "lookupInsert" => cacheMutex.writer = t
             /\ pc[t] = "idle" => ~HoldsLock(t)
             /\ pc'[t] = "idle" => ~HoldsLock(t)'
       /\ \A t, u \in Threads :
             (pc[t] = "lookupInsert" /\ u # t) =>
                pc[u] \notin {"lookupInsert", "lookupRead"}
       /\ lookupCache' # lookupCache =>
             /\ cacheMutex.writer # "none"
             /\ cacheMutex.readers = {}]_vars

\* Both workers read the map at once, under the shared lock.
C16_Witness ==
    /\ cacheMutex.readers = Threads
    /\ pc["t1"] = "lookupRead"
    /\ pc["t2"] = "lookupRead"

\* C17: the lookup cache holds only paths of the metadata index, each with
\* the attributes of its ClipNode; an entry appears only with a successful
\* Lookup of that path, is never removed and never changes, two Lookups of
\* one uncached path included.
C17_CacheMatchesIndex ==
    [][/\ \A p \in DOMAIN lookupCache :
             /\ Get(p) # NilNode
             /\ lookupCache[p].attr = Get(p).attr
             /\ p \in DOMAIN lookupCache'
             /\ lookupCache'[p].attr = lookupCache[p].attr
       /\ \A p \in DOMAIN lookupCache' :
             /\ Get(p) # NilNode
             /\ lookupCache'[p].attr = Get(p).attr
             /\ p \notin DOMAIN lookupCache =>
                   /\ out'.op = "Lookup"
                   /\ out'.errno = "OK"
                   /\ Join(out'.node, out'.name) = p]_vars

\* The first worker has just inserted /f; the second, which missed the
\* cache before that, is about to lock and insert /f again.
C17_Witness ==
    /\ out.op = "Lookup"
    /\ out.errno = "OK"
    /\ F \in DOMAIN lookupCache
    /\ pc["t2"] = "lookupLock"
    /\ ChildPath(req["t2"]) = F

\* C18: a Read that missed the content cache and whose ReadFile succeeded
\* starts exactly one CacheFile goroutine for its node and replies while
\* that goroutine is still pending; every other Read (cache hit, bypass,
\* offset at or past dataLen, failed ReadFile) starts none.
C18_OneCacheFilePerMiss ==
    [][out'.op = "Read" =>
          LET missed == \E t \in Threads :
                           pc[t] = "readMiss" /\ pc'[t] = "idle"
          IN  IF missed /\ out'.errno = "OK"
              THEN /\ tasks' = [tasks EXCEPT ![out'.node] = @ + 1]
                   /\ out'.cacheFile = 1
                   /\ out'.readFile = 1
                   /\ contentCache' = contentCache
              ELSE /\ tasks' = tasks
                   /\ out'.cacheFile = 0]_vars

\* The reply is out, with the file's bytes, while the goroutine has not run.
C18_Witness ==
    /\ out.op = "Read"
    /\ out.node = F
    /\ out.errno = "OK"
    /\ out.data = <<11, 12>>
    /\ out.cacheFile = 1
    /\ tasks[F] = 1
    /\ Get(F).contentHash \notin contentCache

\* C19: a ReadFile failure during Read stays within its request: the reply
\* is EIO without data, after one ReadFile call and no goroutine, the
\* lookup cache and every other piece of state are as before, the worker is
\* idle again, and the same Read asked again is answered OK when the
\* backend then succeeds.
C19_ReadFailureIsLocal ==
    [][/\ out'.errno = "EIO" =>
             /\ out'.op = "Read"
             /\ out'.data = <<>>
             /\ out'.readFile = 1
             /\ out'.cacheFile = 0
             /\ UNCHANGED <<shared, config>>
             /\ \E t \in Threads :
                   /\ pc' = [pc EXCEPT ![t] = "idle"]
                   /\ req' = [req EXCEPT ![t] = NoReq]
       /\ out.errno = "EIO" =>
             ENABLED ( /\ Read("t1", out.node, out.off, out.len)
                       /\ out'.errno = "OK" \/ pc'["t1"] = "readMiss" )
       /\ \A t \in Threads :
             (pc[t] = "readMiss" /\ tasks[req[t].node] < MaxTasks) =>
                ENABLED ( /\ ReadMiss(t)
                          /\ out'.errno = "OK"
                          /\ out'.data # <<>> )]_vars

\* A Read of /f that went to the backend after a cache miss has failed.
C19_Witness ==
    /\ out.op = "Read"
    /\ out.node = F
    /\ out.errno = "EIO"
    /\ out.getContent = 1
    /\ out.readFile = 1
    /\ F \in DOMAIN lookupCache
    /\ pc["t1"] = "idle"

\* C13: the end of the mount is an ordered shutdown: when the server has
\* stopped and the end of the mount is signalled, the requests in flight
\* and the cache-population goroutines the reads started have all ended,
\* so that nothing the caches and the backend serve is still running when
\* they are closed.
C13_OrderedShutdown ==
    mnt.closes > 0 =>
       /\ \A t \in Threads : pc[t] = "idle"
       /\ \A p \in Paths : tasks[p] = 0

\* C14: MountClipArchive runs its stages in the order of Stages, each only
\* after every earlier one succeeded; a failed stage ends it with an error,
\* no start function and no channel: no later stage runs, no server is
\* created, started or served, and nothing is ever sent or closed.
C14_MountFatalOnFailure ==
    /\ Len(mnt.ran) <= Len(Stages)
    /\ \A i \in DOMAIN mnt.ran :
          /\ mnt.ran[i].stage = Stages[i]
          /\ i < Len(mnt.ran) => mnt.ran[i].ok
    /\ (\E i \in DOMAIN mnt.ran : ~mnt.ran[i].ok) =>
          /\ mnt.stage = "failed"
          /\ mnt.ret = "err"
          /\ mnt.server = "none"
          /\ ~mnt.started
          /\ mnt.go = "none"
          /\ mnt.sent = 0 /\ mnt.closes = 0
          /\ inodes = {Root} /\ out = NoOut
    /\ mnt.ret = "ok" =>
          /\ Len(mnt.ran) = Len(Stages)
          /\ \A i \in DOMAIN mnt.ran : mnt.ran[i].ok
    /\ mnt.started => mnt.ret = "ok"

\* The archive's metadata was invalid: the mount returned the error after
\* the second stage.
C14_Witness ==
    /\ mnt.stage = "failed"
    /\ mnt.ret = "err"
    /\ Len(mnt.ran) = 2
    /\ mnt.ran[2] = [stage |-> "metadata", ok |-> FALSE]

\* C20: once the start function is called, the channel signals the end of
\* the mount exactly once: a failed WaitMount leads to one error sent and
\* no close, a stopped server to one close and no error; the send always
\* finds room in the channel, with no receiver at all, and the channel is
\* closed at most once.
C20_SignalsOnce ==
    /\ [](/\ mnt.sent + mnt.closes <= 1
          /\ mnt.go = "send" => (Len(mnt.buf) < ChanCap /\ mnt.closes = 0)
          /\ mnt.go = "done" => mnt.sent + mnt.closes = 1)
    /\ mnt.started ~> (mnt.go = "done" \/ mnt.server = "serving")
    /\ mnt.server = "failed" ~> (mnt.sent = 1 /\ mnt.closes = 0)
    /\ mnt.server = "stopped" ~> (mnt.closes = 1 /\ mnt.sent = 0)

\* The mount failed and its error waits in the channel, unreceived, while
\* the goroutine has ended.
C20_Witness ==
    /\ mnt.server = "failed"
    /\ mnt.go = "done"
    /\ mnt.buf = <<"err">>
    /\ mnt.sent = 1
    /\ mnt.closes = 0

====
